---- MODULE Spec2Model ----
(***************************************************************************)
(* ARM ELF plugin loader: ARMDLObject::relocate and                        *)
(* ARMDLObject::relocateRels (backends/plugins/elf/arm-loader.cpp).        *)
(*                                                                         *)
(* 32-bit quantities are records [hi, lo] of two 16-bit halves, so that    *)
(* all arithmetic is exact modulo 2^32.  Memory is an array of bytes; a    *)
(* word is stored little-endian in four consecutive bytes.                 *)
(***************************************************************************)
EXTENDS Integers, Sequences, FiniteSets, TLC

(***************************************************************************)
(* Bounds of the model.                                                    *)
(***************************************************************************)
\* largest number of section headers in an object (e_shnum)
MaxSections == 2
\* largest number of complete Elf32_Rel entries in the relocation sections
\* of an object, all sections together
MaxEntries == 2
\* size in bytes of the loaded segment
SegSize == 8

(***************************************************************************)
(* Constants of the ELF format used by the loader.                         *)
(***************************************************************************)
R_ARM_PC24 == 1
R_ARM_ABS32 == 2
R_ARM_THM_CALL == 10
R_ARM_CALL == 28
R_ARM_JUMP24 == 29
R_ARM_TARGET1 == 38
R_ARM_V4BX == 40
SHN_LOPROC == 65280
SHT_PROGBITS == 1
SHT_RELA == 4
SHT_REL == 9
SHF_ALLOC == 2
\* sizeof(Elf32_Rel): r_offset and r_info, 4 bytes each
SizeofRel == 8
\* sizeof(Elf32_Rela): r_offset, r_info and r_addend
SizeofRela == 12
\* sizeof(uint32), the width of a patched word
WordBytes == 4

(***************************************************************************)
(* 32-bit unsigned arithmetic (Elf32_Addr, uint32).                        *)
(***************************************************************************)
Half == 256 * 256

Word(h, l) == [hi |-> h, lo |-> l]

\* a + b modulo 2^32
Add32(x, y) ==
    LET l == x.lo + y.lo
    IN  [hi |-> (x.hi + y.hi + (l \div Half)) % Half, lo |-> l % Half]

\* a - b modulo 2^32
Sub32(x, y) ==
    LET l == x.lo - y.lo + Half
    IN  [hi |-> (x.hi - y.hi - (1 - (l \div Half)) + Half) % Half, lo |-> l % Half]

\* the 32-bit representation of a small signed integer
FromInt(d) == IF d >= 0 THEN Word(0, d) ELSE Word(Half - 1, Half + d)

\* a 32-bit difference read back as a small signed integer
ToInt(w) == IF w.hi = 0 THEN w.lo ELSE w.lo - Half

(***************************************************************************)
(* Memory: a window of bytes around the segment.  The segment occupies     *)
(* indices SegLo .. SegLo + SegSize - 1, i.e. index k is the address       *)
(* _segment + (k - SegLo); one word of foreign memory lies on either side. *)
(***************************************************************************)
SegLo == WordBytes
MemSize == SegLo + SegSize + 2 * WordBytes
MemIdx == 0 .. (MemSize - 1)
SegIdx == SegLo .. (SegLo + SegSize - 1)

\* *(uint32 *)p, little-endian
WordAt(m, t) == [hi |-> m[t + 2] + 256 * m[t + 3], lo |-> m[t] + 256 * m[t + 1]]

\* variant of StoreWord: the store also clears the byte after the word
StoreWordSpill(m, t, w) ==
    [k \in DOMAIN m |->
        IF k = t THEN w.lo % 256
        ELSE IF k = t + 1 THEN w.lo \div 256
        ELSE IF k = t + 2 THEN w.hi % 256
        ELSE IF k = t + 3 THEN w.hi \div 256
        ELSE IF k = t + 4 THEN 0
        ELSE m[k]]

\* *(uint32 *)p = w, little-endian
StoreWord(m, t, w) ==
    [k \in DOMAIN m |->
        IF k = t THEN w.lo % 256
        ELSE IF k = t + 1 THEN w.lo \div 256
        ELSE IF k = t + 2 THEN w.hi % 256
        ELSE IF k = t + 3 THEN w.hi \div 256
        ELSE m[k]]

\* do the four bytes at index t lie entirely inside the segment?
InSegment(t) == t >= SegLo /\ t + WordBytes <= SegLo + SegSize

(***************************************************************************)
(* Inputs.                                                                 *)
(***************************************************************************)
\* the loads considered: link-time base O (_segmentVMA), runtime base B
\* (_segment) and the word v in the first slot of the memory copied by the
\* segment loader (the word in slot j is v + 16 * j); seg2 is the runtime
\* base of a second, fresh copy of the same object
Loads ==
    { [vma |-> Word(0, 32768), seg |-> Word(3, 0), word |-> Word(0, 32768),
       seg2 |-> Word(5, 0)],
      [vma |-> Word(3, 0), seg |-> Word(0, 32768), word |-> Word(0, 0),
       seg2 |-> Word(Half - 1, 32768)],
      [vma |-> Word(0, 32768), seg |-> Word(0, 32768), word |-> Word(0, 32784),
       seg2 |-> Word(3, 0)] }

InitMem(v) ==
    [k \in MemIdx |->
        LET w == Add32(v, FromInt(16 * (k \div WordBytes)))
            b == k % WordBytes
        IN  IF b = 0 THEN w.lo % 256
            ELSE IF b = 1 THEN w.lo \div 256
            ELSE IF b = 2 THEN w.hi % 256
            ELSE w.hi \div 256]

\* st_shndx of the symbols: undefined, two internal ones, SHN_ABS, SHN_LOPROC
SymtabPool == { <<0, 1, SHN_LOPROC - 1, 65521, SHN_LOPROC>> }

\* relocation types outside the seven the loader knows (R_ARM_NONE, R_ARM_REL32)
UnknownTypes == {0, 3}

AbsTypes == {R_ARM_ABS32, R_ARM_TARGET1}
RelTypes == {R_ARM_PC24, R_ARM_THM_CALL, R_ARM_CALL, R_ARM_JUMP24}

\* ELF32_R_INFO(sym, type)
MkInfo(s, t) == Word(s \div 256, (s % 256) * 256 + t)

\* (target offset relative to the segment, symbol index, type) of the entries
\* a relocation table may hold
EntryShapes ==
    { <<d, 1, R_ARM_ABS32>> : d \in {0 - WordBytes, 0, WordBytes, SegSize} }
    \cup { <<0, s, R_ARM_ABS32>> : s \in 2 .. 5 }
    \cup { <<0, 1, R_ARM_TARGET1>>, <<WordBytes, 4, R_ARM_TARGET1>> }
    \cup { <<0, 0, R_ARM_PC24>>, <<SegSize, 5, R_ARM_THM_CALL>>, <<0, 0, R_ARM_CALL>>,
           <<SegSize, 5, R_ARM_JUMP24>>, <<0, 0, R_ARM_V4BX>>, <<SegSize, 5, R_ARM_V4BX>> }
    \cup { <<0, 0, t>> : t \in UnknownTypes }

EntryPool(vma) ==
    { [r_offset |-> Add32(vma, FromInt(sh[1])), r_info |-> MkInfo(sh[2], sh[3])] :
        sh \in EntryShapes }

\* sh_size of a relocation section: whole entries, or 4 bytes more
SizePool ==
    { n * SizeofRel : n \in 0 .. MaxEntries } \cup { WordBytes, MaxEntries * SizeofRel + WordBytes }

\* sh_flags of the sections: section 0 has none or SHF_ALLOC | SHF_EXECINSTR
\* and the others SHF_WRITE, or the last section alone has
\* SHF_ALLOC | SHF_WRITE
FlagVectors(n) ==
    { [i \in 1 .. n |-> IF i = 1 THEN f ELSE 1] : f \in {0, SHF_ALLOC + 4} }
        \cup { [i \in 1 .. n |-> IF i = n THEN SHF_ALLOC + 1 ELSE IF i = 1 THEN 0 ELSE 1] }

\* the section headers an object may hold; the size varies only where the
\* section can be a relocation table of the chosen symbol table
HeaderPool(shnum, symsect) ==
    { h \in [ sh_type : {SHT_PROGBITS, SHT_REL, SHT_RELA},
              sh_entsize : {SizeofRel, SizeofRela},
              sh_link : {symsect, symsect + 1},
              sh_info : 0 .. shnum,
              sh_size : SizePool ] :
        \/ h.sh_size = SizeofRel
        \/ h.sh_type = SHT_REL /\ h.sh_entsize = SizeofRel /\ h.sh_link = symsect }

(***************************************************************************)
(* State.                                                                  *)
(***************************************************************************)
VARIABLES
    _segment,       \* runtime base address of the loaded segment
    _segmentVMA,    \* link-time base address of the segment
    _symtab,        \* st_shndx of each symbol, symbol 0 first
    _symtab_sect,   \* index of the symbol table section
    mem,            \* memory bytes, the segment and its surroundings
    e_shnum,        \* ehdr->e_shnum
    shFlags,        \* sh_flags of each section header
    pc,             \* control position
    si,             \* relocateRels: loop index i
    curShdr,        \* relocateRels: *curShdr, the header under examination
    rel,            \* relocate: scratch buffer, "null", "alloc" or "freed"
    cnt,            \* relocate: number of entries
    ri,             \* relocate: loop index i
    curRel,         \* relocate: rel[i], the entry under examination
    st_shndx,       \* relocate: sym->st_shndx as read, -1 when not read
    target,         \* relocate: index in mem of *target
    a,              \* relocate: addend read from *target
    relocation,     \* relocate: value written to *target
    relocRet,       \* result of the last relocate call: "true", "false", or
                    \* "none" while it runs
    relsRet,        \* result of relocateRels: "true", "false", or "none"
    warnings,       \* diagnostics emitted, oldest first
    allocs,         \* number of successful malloc calls
    frees,          \* number of free calls
    h_mem0,         \* history: memory as copied by the segment loader
    h_memAtCall,    \* history: memory when the last relocate call began
    h_memPrev,      \* history: memory before the last entry was processed
    h_io,           \* history: stream outcome of the last relocate call
    h_examined,     \* history: entries examined by the last relocate call
    h_kinds,        \* history: kinds of the entries examined by that call
    h_deref,        \* history: did the last entry dereference target?
    h_total,        \* history: entries in the sections relocated so far
    h_patched,      \* history: how often each target was shifted so far
    _segment2,      \* second copy of the object: its runtime base address
    mem2,           \* second copy: its memory, relocated entry by entry
                    \* along with the first
    segLive,        \* the load: the memory of the segment is still allocated
    plugin,         \* the load: "none", or "usable" once the Plugin exists
    run,            \* which run of relocateRels on this segment: 1 or 2
    h_table,        \* the sections of the object and their entries, when they
                    \* are fixed beforehand; NoTable when drawn as they are read
    h_mem1,         \* history: memory when the first run had returned
    h_patched1,     \* history: h_patched when the first run had returned
    lastvm,         \* vmsave.cpp: the unit of the last successful scan, or -1
    cardPc,         \* the save-game function running: "idle", "cached", "scan"
    cardOp,         \* "write", "read" or "delete": the function called last
    unit,           \* loop index i of the scan over the units
    res,            \* writeSaveGame: res, the worst result so far
    cardRet,        \* result of the last call: a vmsaveResult, or 0 / 1 for
                    \* the false / true of readSaveGame and deleteSaveGame
    h_lastvm0,      \* history: lastvm when the function was called
    h_tried,        \* history: the units tried by this call, in order
    h_seen,         \* history: the results of the tries of this call
    h_hit,          \* history: the last try succeeded
    in_state,       \* InVMSave: "none", "loaded" or "crashed"
    in_pos,         \* InVMSave::_pos
    in_size,        \* InVMSave::_size
    in_eos,         \* InVMSave::_eos
    h_inOp,         \* history: the last call on the stream
    h_inArg,        \* history: its argument, cnt or offset or offs
    h_inPos0,       \* history: _pos when it was called
    h_inEos0,       \* history: _eos when it was called
    h_inRet,        \* history: the uint32 it returned
    h_inCalls,      \* history: number of calls on the stream
    out_state,      \* OutVMSave: "none", "open", "destroyed" or "crashed"
    out_pos,        \* OutVMSave::_pos
    committed,      \* OutVMSave::committed
    iofailed,       \* OutVMSave::iofailed
    h_outOp,        \* history: the last call on the stream
    h_outArg,       \* history: the cnt of the last write
    h_outPos0,      \* history: _pos when the last call was made
    h_outRet,       \* history: the uint32 the last write returned, or the
                    \* result of writeSaveGame in the last finalize (-1: none)
    h_commits,      \* history: the lengths handed to writeSaveGame, in order
    h_due,          \* history: no finalize yet, or a write has returned a
                    \* nonzero count since the last one
    h_outCalls      \* history: number of calls on the stream

vars ==
    << _segment, _segmentVMA, _symtab, _symtab_sect, mem, e_shnum, shFlags, pc,
       si, curShdr, rel, cnt, ri, curRel, st_shndx, target, a, relocation,
       relocRet, relsRet, warnings, allocs, frees, h_mem0, h_memAtCall,
       h_memPrev, h_io, h_examined, h_kinds, h_deref, h_total, h_patched,
       _segment2, mem2, segLive, plugin, run, h_table, h_mem1, h_patched1,
       lastvm, cardPc, cardOp, unit, res, cardRet, h_lastvm0, h_tried, h_seen,
       h_hit, in_state, in_pos, in_size, in_eos, h_inOp, h_inArg, h_inPos0,
       h_inEos0, h_inRet, h_inCalls, out_state, out_pos, committed, iofailed,
       h_outOp, h_outArg, h_outPos0, h_outRet, h_commits, h_due, h_outCalls >>

rerunVars == << run, h_table, h_mem1, h_patched1 >>
cardVars == << lastvm, cardPc, cardOp, unit, res, cardRet, h_lastvm0, h_tried, h_seen,
               h_hit >>
cardLocals == << cardPc, cardOp, unit, res, cardRet, h_lastvm0, h_tried, h_seen, h_hit >>
inVars ==
    << in_state, in_pos, in_size, in_eos, h_inOp, h_inArg, h_inPos0, h_inEos0,
       h_inRet, h_inCalls >>
outVars ==
    << out_state, out_pos, committed, iofailed, h_outOp, h_outArg, h_outPos0,
       h_outRet, h_commits, h_due, h_outCalls >>
streamVars == << inVars, outVars >>
vmVars == << cardVars, streamVars >>
fieldVars ==
    << _segment, _segmentVMA, _symtab, _symtab_sect, h_mem0, _segment2, rerunVars,
       vmVars >>
loadVars == << segLive, plugin >>
objVars == << fieldVars, h_patched, mem2, loadVars >>
hdrVars == << e_shnum, shFlags >>
relsVars == << si, curShdr >>
bufVars == << rel, allocs, frees >>
loopVars == << cnt, ri >>
entryVars == << curRel, st_shndx, target, a, relocation, h_memPrev, h_deref >>
callVars == << h_memAtCall, h_io, h_examined, h_kinds, h_total >>

NoWord == Word(0, 0)
NoShdr == [sh_type |-> 0, sh_entsize |-> 0, sh_link |-> 0, sh_info |-> 0, sh_size |-> 0]
\* no entry fetched: an r_info no table of the model holds
NoRel == [r_offset |-> NoWord, r_info |-> Word(Half - 1, Half - 1)]

\* one more shift of the word at t
AddPatch(b, t) ==
    [k \in DOMAIN b \cup {t} |-> IF k = t THEN (IF t \in DOMAIN b THEN b[t] + 1 ELSE 1) ELSE b[k]]

\* the object after its segment was loaded, before relocateRels is called
InitObject ==
    /\ \E ld \in Loads :
          /\ _segment = ld.seg
          /\ _segmentVMA = ld.vma
          /\ mem = InitMem(ld.word)
          /\ _segment2 = ld.seg2
          /\ mem2 = InitMem(ld.word)
          /\ segLive = TRUE
          /\ plugin = "none"
    /\ _symtab \in SymtabPool
    /\ _symtab_sect = 1
    /\ e_shnum = 0
    /\ shFlags = << >>
    /\ pc = "idle"
    /\ si = 0
    /\ curShdr = NoShdr
    /\ rel = "null"
    /\ cnt = 0
    /\ ri = 0
    /\ curRel = NoRel
    /\ st_shndx = -1
    /\ target = 0
    /\ a = NoWord
    /\ relocation = NoWord
    /\ relocRet = "none"
    /\ relsRet = "none"
    /\ warnings = << >>
    /\ allocs = 0
    /\ frees = 0
    /\ h_mem0 = mem
    /\ h_memAtCall = mem
    /\ h_memPrev = mem
    /\ h_io = "none"
    /\ h_examined = 0
    /\ h_kinds = {}
    /\ h_deref = FALSE
    /\ h_total = 0
    /\ h_patched = [t \in {} |-> 0]
    /\ run = 1
    /\ h_mem1 = mem
    /\ h_patched1 = h_patched

NoTable == [layout |-> << >>, entries |-> << >>]

\* enum vmsaveResult
VMSAVE_OK == 0
VMSAVE_NOVM == 1
VMSAVE_NOSPACE == 2
VMSAVE_WRITEERROR == 3

\* the units scanned: for (int i=0; i<24; i++)
NumUnits == 24

\* static int lastvm=-1; no save-game function has been called
InitCard ==
    /\ lastvm = -1
    /\ cardPc = "idle"
    /\ cardOp = "none"
    /\ unit = 0
    /\ res = VMSAVE_NOVM
    /\ cardRet = -1
    /\ h_lastvm0 = -1
    /\ h_tried = << >>
    /\ h_seen = {}
    /\ h_hit = FALSE

\* no InVMSave stream exists yet
InitIn ==
    /\ in_state = "none"
    /\ in_pos = 0
    /\ in_size = 0
    /\ in_eos = FALSE
    /\ h_inOp = "none"
    /\ h_inArg = NoWord
    /\ h_inPos0 = 0
    /\ h_inEos0 = FALSE
    /\ h_inRet = NoWord
    /\ h_inCalls = 0

\* no OutVMSave stream exists yet
InitOut ==
    /\ out_state = "none"
    /\ out_pos = 0
    /\ committed = -1
    /\ iofailed = FALSE
    /\ h_outOp = "none"
    /\ h_outArg = NoWord
    /\ h_outPos0 = 0
    /\ h_outRet = NoWord
    /\ h_commits = << >>
    /\ h_due = TRUE
    /\ h_outCalls = 0

InitVM == InitCard /\ InitIn /\ InitOut

Init ==
    /\ InitObject
    /\ h_table = NoTable
    /\ InitVM

(***************************************************************************)
(* Helpers of relocate and relocateRels.                                   *)
(***************************************************************************)
\* REL_TYPE(info): the low byte of r_info
REL_TYPE(info) == info.lo % 256

\* REL_INDEX(info): r_info >> 8
REL_INDEX(info) == info.hi * 256 + (info.lo \div 256)

\* flags & bit, for a single-bit mask
HasFlag(flags, bit) == (flags \div bit) % 2 = 1

\* variant of TargetIndex: the target is taken one word further
TargetIndexNextWord(r_offset, vma) == SegLo + ToInt(Sub32(r_offset, vma)) + WordBytes

\* index in mem of (byte *)relSegment + r_offset - _segmentVMA
TargetIndex(r_offset, vma) == SegLo + ToInt(Sub32(r_offset, vma))

\* sym->st_shndx for _symtab + idx; past the end of the table the read is
\* out of bounds and may deliver any value
SymRead(tab, idx) ==
    IF idx < Len(tab) THEN {tab[idx + 1]} ELSE {0, SHN_LOPROC}

\* variant of IsInternal: the threshold itself counts as a plugin section
IsInternalInclusive(shndx) == shndx <= SHN_LOPROC

\* sym->st_shndx < SHN_LOPROC
IsInternal(shndx) == shndx < SHN_LOPROC

\* variant of Relocation: the link-time base is not subtracted
RelocationNoVMA(addend, vma, seg) == Add32(addend, seg)

\* variant of Relocation: the runtime base is not added
RelocationNoBase(addend, vma, seg) == Sub32(addend, vma)

\* a - _segmentVMA + Elf32_Addr(_segment)
Relocation(addend, vma, seg) == Add32(Sub32(addend, vma), seg)

\* variant of Dispatch: the case R_ARM_V4BX is missing
DispatchNoV4bx(type) ==
    IF type = R_ARM_ABS32 \/ type = R_ARM_TARGET1 THEN "abs"
    ELSE IF type = R_ARM_PC24 THEN "none"
    ELSE IF type = R_ARM_THM_CALL THEN "none"
    ELSE IF type = R_ARM_CALL \/ type = R_ARM_JUMP24 THEN "none"
    ELSE "default"

\* variant of Dispatch: the case R_ARM_JUMP24 is missing
DispatchNoJump24(type) ==
    IF type = R_ARM_ABS32 \/ type = R_ARM_TARGET1 THEN "abs"
    ELSE IF type = R_ARM_PC24 THEN "none"
    ELSE IF type = R_ARM_THM_CALL THEN "none"
    ELSE IF type = R_ARM_CALL THEN "none"
    ELSE IF type = R_ARM_V4BX THEN "none"
    ELSE "default"

\* variant of Dispatch: the default case breaks instead of returning false
DispatchSkipUnknown(type) ==
    IF type = R_ARM_ABS32 \/ type = R_ARM_TARGET1 THEN "abs"
    ELSE "none"

\* the switch on REL_TYPE(rel[i].r_info)
Dispatch(type) ==
    IF type = R_ARM_ABS32 \/ type = R_ARM_TARGET1 THEN "abs"
    ELSE IF type = R_ARM_PC24 THEN "none"
    ELSE IF type = R_ARM_THM_CALL THEN "none"
    ELSE IF type = R_ARM_CALL \/ type = R_ARM_JUMP24 THEN "none"
    ELSE IF type = R_ARM_V4BX THEN "none"
    ELSE "default"

\* variant of ReadOk: the number of bytes read is not compared with size
ReadOkSeekOnly(seekOk, nread, size) == seekOk

\* _file->seek(offset, SEEK_SET) && _file->read(rel, size) == size
ReadOk(seekOk, nread, size) == seekOk /\ nread = size

\* what the stream may deliver for a read of size bytes
ReadCounts(size) == { n \in {0, size - WordBytes, size} : n >= 0 }

\* variant of Qualifies: sh_entsize is not compared with sizeof(Elf32_Rel)
QualifiesAnyEntsize(h, shnum, flags, symsect) ==
    /\ (h.sh_type = SHT_REL \/ h.sh_type = SHT_RELA)
    /\ h.sh_link = symsect
    /\ h.sh_info < shnum
    /\ HasFlag(flags[h.sh_info + 1], SHF_ALLOC)

\* the condition under which relocateRels treats section header h
Qualifies(h, shnum, flags, symsect) ==
    /\ (h.sh_type = SHT_REL \/ h.sh_type = SHT_RELA)
    /\ h.sh_entsize = SizeofRel
    /\ h.sh_link = symsect
    /\ h.sh_info < shnum
    /\ HasFlag(flags[h.sh_info + 1], SHF_ALLOC)

\* how the claims classify an entry type
KindOf(type) ==
    IF type \in {R_ARM_ABS32, R_ARM_TARGET1} THEN "abs"
    ELSE IF type \in {R_ARM_PC24, R_ARM_THM_CALL, R_ARM_CALL, R_ARM_JUMP24, R_ARM_V4BX}
         THEN "nopatch"
    ELSE "other"

(***************************************************************************)
(* relocateRels.                                                           *)
(***************************************************************************)
\* the loader calls relocateRels(ehdr, shdr) on an object
CallRelocateRels ==
    /\ pc = "idle"
    /\ \E n \in 0 .. MaxSections :
          /\ e_shnum' = n
          /\ shFlags' \in FlagVectors(n)
    /\ si' = 0
    /\ pc' = "rels_loop"
    /\ UNCHANGED << objVars, mem, curShdr, bufVars, loopVars, entryVars, callVars,
                    relocRet, relsRet, warnings >>

\* the loop is over: return true
RelsReturnTrue ==
    /\ pc = "rels_loop"
    /\ ~(si < e_shnum)
    /\ relsRet' = "true"
    /\ pc' = "done"
    /\ UNCHANGED << objVars, hdrVars, mem, relsVars, bufVars, loopVars, entryVars,
                    callVars, relocRet, warnings >>

\* a section that does not pass the test of the if: next section
RelsSkip ==
    /\ pc = "rels_loop"
    /\ si < e_shnum
    /\ \E h \in HeaderPool(e_shnum, _symtab_sect) :
          /\ ~Qualifies(h, e_shnum, shFlags, _symtab_sect)
          /\ curShdr' = h
    /\ si' = si + 1
    /\ UNCHANGED << objVars, hdrVars, mem, pc, bufVars, loopVars, entryVars, callVars,
                    relocRet, relsRet, warnings >>

\* variant of RelsRela: false is returned without the warning
RelsRelaSilent ==
    /\ pc = "rels_loop"
    /\ si < e_shnum
    /\ \E h \in HeaderPool(e_shnum, _symtab_sect) :
          /\ Qualifies(h, e_shnum, shFlags, _symtab_sect)
          /\ h.sh_type = SHT_RELA
          /\ curShdr' = h
    /\ relsRet' = "false"
    /\ pc' = "done"
    /\ UNCHANGED << objVars, hdrVars, mem, si, bufVars, loopVars, entryVars, callVars,
                    relocRet, warnings >>

\* a section that passes the test and is of type SHT_RELA: warn, return false
RelsRela ==
    /\ pc = "rels_loop"
    /\ si < e_shnum
    /\ \E h \in HeaderPool(e_shnum, _symtab_sect) :
          /\ Qualifies(h, e_shnum, shFlags, _symtab_sect)
          /\ h.sh_type = SHT_RELA
          /\ curShdr' = h
    /\ warnings' = Append(warnings, "RELA entries not supported yet!")
    /\ relsRet' = "false"
    /\ pc' = "done"
    /\ UNCHANGED << objVars, hdrVars, mem, si, bufVars, loopVars, entryVars, callVars,
                    relocRet >>

\* a section that passes the test: relocate(sh_offset, sh_size, _segment)
RelsCallRelocate ==
    /\ pc = "rels_loop"
    /\ si < e_shnum
    /\ \E h \in HeaderPool(e_shnum, _symtab_sect) :
          /\ Qualifies(h, e_shnum, shFlags, _symtab_sect)
          /\ h.sh_type # SHT_RELA
          /\ h_total + (h.sh_size \div SizeofRel) <= MaxEntries
          /\ curShdr' = h
          /\ h_total' = h_total + (h.sh_size \div SizeofRel)
    /\ rel' = "null"
    /\ cnt' = 0
    /\ ri' = 0
    /\ relocRet' = "none"
    /\ pc' = "reloc_malloc"
    /\ h_memAtCall' = mem
    /\ h_io' = "none"
    /\ h_examined' = 0
    /\ h_kinds' = {}
    /\ UNCHANGED << objVars, hdrVars, mem, si, allocs, frees, entryVars, relsRet,
                    warnings >>

(***************************************************************************)
(* relocate.                                                               *)
(***************************************************************************)
\* variant of ReturnFalse: the result of relocate is not tested and the loop
\* over the sections goes on
ReturnFalseContinue ==
    /\ relocRet' = "false"
    /\ relsRet' = relsRet
    /\ pc' = "rels_loop"

\* relocate returns false, and relocateRels returns false in turn
ReturnFalse ==
    /\ relocRet' = "false"
    /\ relsRet' = "false"
    /\ pc' = "done"

\* variant of RelocMallocFail: the null pointer is not tested
RelocMallocFailIgnored ==
    /\ pc = "reloc_malloc"
    /\ pc' = "reloc_read"
    /\ UNCHANGED << objVars, hdrVars, mem, relsVars, bufVars, loopVars, entryVars,
                    callVars, relocRet, relsRet, warnings >>

\* malloc(size) returns null: warn, return false
RelocMallocFail ==
    /\ pc = "reloc_malloc"
    /\ warnings' = Append(warnings, "Could not allocate bytes for the relocation table")
    /\ ReturnFalse
    /\ UNCHANGED << objVars, hdrVars, mem, relsVars, bufVars, loopVars, entryVars,
                    callVars >>

\* malloc(size) returns a buffer
RelocMallocOk ==
    /\ pc = "reloc_malloc"
    /\ rel' = "alloc"
    /\ allocs' = allocs + 1
    /\ pc' = "reloc_read"
    /\ UNCHANGED << objVars, hdrVars, mem, relsVars, frees, loopVars, entryVars,
                    callVars, relocRet, relsRet, warnings >>

\* the seek fails or the read is short: warn, free the buffer, return false
RelocReadFail ==
    /\ pc = "reloc_read"
    /\ \E seekOk \in BOOLEAN, n \in ReadCounts(curShdr.sh_size) :
          /\ ~ReadOk(seekOk, n, curShdr.sh_size)
          /\ h_io' = IF ~seekOk THEN "seek_failed"
                     ELSE IF n < curShdr.sh_size THEN "short_read" ELSE "ok"
    /\ warnings' = Append(warnings, "Relocation table load failed.")
    /\ rel' = "freed"
    /\ frees' = frees + 1
    /\ ReturnFalse
    /\ UNCHANGED << objVars, hdrVars, mem, relsVars, allocs, loopVars, entryVars,
                    h_memAtCall, h_total, h_examined, h_kinds >>

\* variant of RelocReadOk: a trailing partial entry is counted as an entry
RelocReadOkRoundUp ==
    /\ pc = "reloc_read"
    /\ \E seekOk \in BOOLEAN, n \in ReadCounts(curShdr.sh_size) :
          /\ ReadOk(seekOk, n, curShdr.sh_size)
          /\ h_io' = IF ~seekOk THEN "seek_failed"
                     ELSE IF n < curShdr.sh_size THEN "short_read" ELSE "ok"
    /\ cnt' = (curShdr.sh_size + SizeofRel - 1) \div SizeofRel
    /\ ri' = 0
    /\ pc' = "reloc_loop"
    /\ UNCHANGED << objVars, hdrVars, mem, relsVars, bufVars, entryVars, h_memAtCall,
                    h_total, h_examined, h_kinds, relocRet, relsRet, warnings >>

\* the table is read: cnt = size / sizeof(*rel), enter the loop
RelocReadOk ==
    /\ pc = "reloc_read"
    /\ \E seekOk \in BOOLEAN, n \in ReadCounts(curShdr.sh_size) :
          /\ ReadOk(seekOk, n, curShdr.sh_size)
          /\ h_io' = IF ~seekOk THEN "seek_failed"
                     ELSE IF n < curShdr.sh_size THEN "short_read" ELSE "ok"
    /\ cnt' = curShdr.sh_size \div SizeofRel
    /\ ri' = 0
    /\ pc' = "reloc_loop"
    /\ UNCHANGED << objVars, hdrVars, mem, relsVars, bufVars, entryVars, h_memAtCall,
                    h_total, h_examined, h_kinds, relocRet, relsRet, warnings >>

\* the part common to every entry: rel[i] is fetched, sym and target computed
Fetch(e) ==
    /\ curRel' = e
    /\ target' = TargetIndex(e.r_offset, _segmentVMA)
    /\ h_memPrev' = mem
    /\ h_examined' = h_examined + 1
    /\ h_kinds' = h_kinds \cup {KindOf(REL_TYPE(e.r_info))}

\* R_ARM_ABS32 or R_ARM_TARGET1 on a symbol of the plugin: shift the word
RelocAbsPatch ==
    /\ pc = "reloc_loop"
    /\ ri < cnt
    /\ \E e \in EntryPool(_segmentVMA) :
       /\ Fetch(e)
       /\ Dispatch(REL_TYPE(e.r_info)) = "abs"
       /\ \E sh \in SymRead(_symtab, REL_INDEX(e.r_info)) :
             /\ IsInternal(sh)
             /\ st_shndx' = sh
       /\ a' = WordAt(mem, target')
       /\ relocation' = Relocation(a', _segmentVMA, _segment)
       /\ mem' = StoreWord(mem, target', relocation')
       /\ h_deref' = TRUE
       /\ h_patched' = AddPatch(h_patched, target')
       /\ mem2' = StoreWord(mem2, target',
                            Relocation(WordAt(mem2, target'), _segmentVMA, _segment2))
       /\ ri' = ri + 1
       /\ UNCHANGED << fieldVars, loadVars, hdrVars, pc, relsVars, bufVars, cnt,
                       h_memAtCall, h_total, h_io, relocRet, relsRet, warnings >>

\* R_ARM_ABS32 or R_ARM_TARGET1 on any other symbol: nothing to do
RelocAbsSkip ==
    /\ pc = "reloc_loop"
    /\ ri < cnt
    /\ \E e \in EntryPool(_segmentVMA) :
       /\ Fetch(e)
       /\ Dispatch(REL_TYPE(e.r_info)) = "abs"
       /\ \E sh \in SymRead(_symtab, REL_INDEX(e.r_info)) :
             /\ ~IsInternal(sh)
             /\ st_shndx' = sh
       /\ h_deref' = FALSE
       /\ ri' = ri + 1
       /\ UNCHANGED << objVars, hdrVars, mem, pc, relsVars, bufVars, cnt, a, relocation,
                       h_memAtCall, h_total, h_io, relocRet, relsRet, warnings >>

\* the reads through sym and target are not checked: outside the symbol table
\* or outside the mapped memory they may also trap
RelocFault ==
    /\ pc = "reloc_loop"
    /\ ri < cnt
    /\ \E e \in EntryPool(_segmentVMA) :
       /\ Fetch(e)
       /\ Dispatch(REL_TYPE(e.r_info)) = "abs"
       /\ \/ /\ ~(REL_INDEX(e.r_info) < Len(_symtab))
             /\ st_shndx' = -1
             /\ h_deref' = FALSE
          \/ /\ \E sh \in SymRead(_symtab, REL_INDEX(e.r_info)) :
                   /\ IsInternal(sh)
                   /\ st_shndx' = sh
             /\ ~InSegment(target')
             /\ h_deref' = TRUE
       /\ pc' = "fault"
       /\ UNCHANGED << objVars, hdrVars, mem, relsVars, bufVars, loopVars, a, relocation,
                       h_memAtCall, h_total, h_io, relocRet, relsRet, warnings >>

\* R_ARM_PC24, R_ARM_THM_CALL, R_ARM_CALL, R_ARM_JUMP24, R_ARM_V4BX: nothing to do
RelocNoPatch ==
    /\ pc = "reloc_loop"
    /\ ri < cnt
    /\ \E e \in EntryPool(_segmentVMA) :
       /\ Fetch(e)
       /\ Dispatch(REL_TYPE(e.r_info)) = "none"
       /\ st_shndx' = -1
       /\ h_deref' = FALSE
       /\ ri' = ri + 1
       /\ UNCHANGED << objVars, hdrVars, mem, pc, relsVars, bufVars, cnt, a, relocation,
                       h_memAtCall, h_total, h_io, relocRet, relsRet, warnings >>

\* variant of RelocUnknown: the default case returns without free(rel)
RelocUnknownLeak ==
    /\ pc = "reloc_loop"
    /\ ri < cnt
    /\ \E e \in EntryPool(_segmentVMA) :
       /\ Fetch(e)
       /\ Dispatch(REL_TYPE(e.r_info)) = "default"
       /\ st_shndx' = -1
       /\ h_deref' = FALSE
       /\ warnings' = Append(warnings, "Unknown relocation type")
       /\ ReturnFalse
       /\ UNCHANGED << objVars, hdrVars, mem, relsVars, bufVars, loopVars, a, relocation,
                       h_memAtCall, h_total, h_io >>

\* variant of RelocUnknown: the segment is put back as it was at the call
RelocUnknownRollback ==
    /\ pc = "reloc_loop"
    /\ ri < cnt
    /\ \E e \in EntryPool(_segmentVMA) :
       /\ Fetch(e)
       /\ Dispatch(REL_TYPE(e.r_info)) = "default"
       /\ st_shndx' = -1
       /\ h_deref' = FALSE
       /\ warnings' = Append(warnings, "Unknown relocation type")
       /\ rel' = "freed"
       /\ frees' = frees + 1
       /\ mem' = h_memAtCall
       /\ ReturnFalse
       /\ UNCHANGED << objVars, hdrVars, relsVars, allocs, loopVars, a, relocation,
                       h_memAtCall, h_total, h_io >>

\* any other type: warn, free the buffer, return false
RelocUnknown ==
    /\ pc = "reloc_loop"
    /\ ri < cnt
    /\ \E e \in EntryPool(_segmentVMA) :
       /\ Fetch(e)
       /\ Dispatch(REL_TYPE(e.r_info)) = "default"
       /\ st_shndx' = -1
       /\ h_deref' = FALSE
       /\ warnings' = Append(warnings, "Unknown relocation type")
       /\ rel' = "freed"
       /\ frees' = frees + 1
       /\ ReturnFalse
       /\ UNCHANGED << objVars, hdrVars, mem, relsVars, allocs, loopVars, a, relocation,
                       h_memAtCall, h_total, h_io >>

\* variant of RelocReturnTrue: the buffer is not freed before the return
RelocReturnTrueLeak ==
    /\ pc = "reloc_loop"
    /\ ~(ri < cnt)
    /\ relocRet' = "true"
    /\ si' = si + 1
    /\ pc' = "rels_loop"
    /\ curRel' = NoRel
    /\ st_shndx' = -1
    /\ target' = 0
    /\ a' = NoWord
    /\ relocation' = NoWord
    /\ h_memPrev' = mem
    /\ h_deref' = FALSE
    /\ UNCHANGED << objVars, hdrVars, mem, curShdr, bufVars, loopVars, callVars, relsRet,
                    warnings >>

\* the loop is over: free the buffer, return true; relocateRels goes on
RelocReturnTrue ==
    /\ pc = "reloc_loop"
    /\ ~(ri < cnt)
    /\ rel' = "freed"
    /\ frees' = frees + 1
    /\ relocRet' = "true"
    /\ si' = si + 1
    /\ pc' = "rels_loop"
    /\ curRel' = NoRel
    /\ st_shndx' = -1
    /\ target' = 0
    /\ a' = NoWord
    /\ relocation' = NoWord
    /\ h_memPrev' = mem
    /\ h_deref' = FALSE
    /\ UNCHANGED << objVars, hdrVars, mem, curShdr, allocs, loopVars, callVars, relsRet,
                    warnings >>

(***************************************************************************)
(* The caller of relocateRels: the load of the object.                     *)
(***************************************************************************)
\* variant of LoadUnwind: the failed load keeps its segment and hands it out
\* as a Plugin
LoadUnwindKeepSegment ==
    /\ pc = "done"
    /\ relsRet = "false"
    /\ segLive
    /\ plugin' = "usable"
    /\ UNCHANGED << fieldVars, h_patched, mem2, segLive, hdrVars, mem, pc, relsVars,
                    bufVars, loopVars, entryVars, callVars, relocRet, relsRet,
                    warnings >>

\* relocateRels has returned false: the load releases the segment and fails
LoadUnwind ==
    /\ pc = "done"
    /\ relsRet = "false"
    /\ segLive
    /\ segLive' = FALSE
    /\ plugin' = "none"
    /\ UNCHANGED << fieldVars, h_patched, mem2, hdrVars, mem, pc, relsVars, bufVars,
                    loopVars, entryVars, callVars, relocRet, relsRet, warnings >>

\* relocateRels has returned true: the Plugin is created over the segment
LoadCreatePlugin ==
    /\ pc = "done"
    /\ relsRet = "true"
    /\ plugin = "none"
    /\ plugin' = "usable"
    /\ UNCHANGED << fieldVars, h_patched, mem2, segLive, hdrVars, mem, pc, relsVars,
                    bufVars, loopVars, entryVars, callVars, relocRet, relsRet,
                    warnings >>

Next ==
    \/ CallRelocateRels
    \/ RelsReturnTrue
    \/ RelsSkip
    \/ RelsRela
    \/ RelsCallRelocate
    \/ RelocMallocFail
    \/ RelocMallocOk
    \/ RelocReadFail
    \/ RelocReadOk
    \/ RelocAbsPatch
    \/ RelocAbsSkip
    \/ RelocFault
    \/ RelocNoPatch
    \/ RelocUnknown
    \/ RelocReturnTrue
    \/ LoadUnwind
    \/ LoadCreatePlugin

Spec == Init /\ [][Next]_vars

(***************************************************************************)
(* Two runs of relocateRels on one segment, with the same tables: the      *)
(* sections and their entries are fixed at the start and every run reads   *)
(* them from there.                                                        *)
(***************************************************************************)
\* the entries such a table may hold: a fixup on an internal symbol, one on
\* a symbol index past the table, a self-relative entry, an unknown type
RerunShapes ==
    { <<0, 1, R_ARM_ABS32>>, <<0, 5, R_ARM_ABS32>>, <<0, 0, R_ARM_PC24>>, <<0, 0, 0>> }

RerunEntries(vma) ==
    { [r_offset |-> Add32(vma, FromInt(sh[1])), r_info |-> MkInfo(sh[2], sh[3])] :
        sh \in RerunShapes }

\* a section of the table: skipped, SHT_RELA, or SHT_REL with n entries
SectionKinds ==
    { [kind |-> k, n |-> 0] : k \in {"skip", "rela"} }
        \cup { [kind |-> "rel", n |-> k] : k \in 1 .. MaxEntries }

\* the number of entries of the first s sections
RECURSIVE EntriesBefore(_, _)
EntriesBefore(lay, s) == IF s = 0 THEN 0 ELSE EntriesBefore(lay, s - 1) + lay[s].n

\* no section follows an SHT_RELA section: it would never be read
Layouts ==
    { lay \in UNION { [1 .. n -> SectionKinds] : n \in 0 .. MaxSections } :
        /\ EntriesBefore(lay, Len(lay)) <= MaxEntries
        /\ \A s \in 1 .. Len(lay) - 1 : lay[s].kind # "rela" }

\* no entry follows an entry of unknown type: it would never be read
Tables(vma) ==
    UNION { { [layout |-> lay, entries |-> es] :
                es \in { f \in [1 .. EntriesBefore(lay, Len(lay)) -> RerunEntries(vma)] :
                            \A i \in 1 .. Len(f) - 1 :
                                Dispatch(REL_TYPE(f[i].r_info)) # "default" } } :
            lay \in Layouts }

\* the header of a section of the table; every section names section 0
SectionHeader(s) ==
    [sh_type |-> IF s.kind = "rel" THEN SHT_REL
                 ELSE IF s.kind = "rela" THEN SHT_RELA ELSE SHT_PROGBITS,
     sh_entsize |-> SizeofRel,
     sh_link |-> _symtab_sect,
     sh_info |-> 0,
     sh_size |-> IF s.kind = "rel" THEN s.n * SizeofRel ELSE SizeofRel]

\* what a step reads of the object is what the table holds there
FromTable ==
    /\ pc = "idle" =>
          /\ e_shnum' = Len(h_table.layout)
          /\ shFlags' = [i \in 1 .. e_shnum' |-> IF i = 1 THEN SHF_ALLOC + 4 ELSE 1]
    /\ (pc = "rels_loop" /\ si < e_shnum) =>
          curShdr' = SectionHeader(h_table.layout[si + 1])
    /\ h_examined' = h_examined + 1 =>
          curRel' = h_table.entries[EntriesBefore(h_table.layout, si) + ri + 1]

InitRerun ==
    /\ InitObject
    /\ h_table \in Tables(_segmentVMA)
    /\ InitVM

\* variant of Rerun: the second call works on the segment as it was loaded
RerunOnFreshCopy ==
    /\ pc = "done"
    /\ relsRet = "true"
    /\ run = 1
    /\ run' = 2
    /\ h_mem1' = mem
    /\ h_patched1' = h_patched
    /\ mem' = h_mem0
    /\ si' = 0
    /\ relsRet' = "none"
    /\ relocRet' = "none"
    /\ h_total' = 0
    /\ pc' = "rels_loop"
    /\ UNCHANGED << _segment, _segmentVMA, _symtab, _symtab_sect, h_mem0, _segment2,
                    h_table, h_patched, mem2, loadVars, hdrVars, curShdr, bufVars,
                    loopVars, entryVars, h_memAtCall, h_io, h_examined, h_kinds,
                    warnings, vmVars >>

\* relocateRels is called again on the segment a first call has relocated
Rerun ==
    /\ pc = "done"
    /\ relsRet = "true"
    /\ run = 1
    /\ run' = 2
    /\ h_mem1' = mem
    /\ h_patched1' = h_patched
    /\ si' = 0
    /\ relsRet' = "none"
    /\ relocRet' = "none"
    /\ h_total' = 0
    /\ pc' = "rels_loop"
    /\ UNCHANGED << _segment, _segmentVMA, _symtab, _symtab_sect, h_mem0, _segment2,
                    h_table, h_patched, mem2, loadVars, hdrVars, mem, curShdr, bufVars,
                    loopVars, entryVars, h_memAtCall, h_io, h_examined, h_kinds,
                    warnings, vmVars >>

NextRerun ==
    \/ CallRelocateRels /\ FromTable
    \/ RelsReturnTrue /\ FromTable
    \/ RelsSkip /\ FromTable
    \/ RelsRela /\ FromTable
    \/ RelsCallRelocate /\ FromTable
    \/ RelocMallocFail /\ FromTable
    \/ RelocMallocOk /\ FromTable
    \/ RelocReadFail /\ FromTable
    \/ RelocReadOk /\ FromTable
    \/ RelocAbsPatch /\ FromTable
    \/ RelocAbsSkip /\ FromTable
    \/ RelocFault /\ FromTable
    \/ RelocNoPatch /\ FromTable
    \/ RelocUnknown /\ FromTable
    \/ RelocReturnTrue /\ FromTable
    \/ LoadUnwind /\ FromTable
    \/ LoadCreatePlugin /\ FromTable
    \/ Rerun

SpecRerun == InitRerun /\ [][NextRerun]_vars

(***************************************************************************)
(* vmsave.cpp: the save-game functions over the memory units.  Whether a   *)
(* unit takes a save-game, or holds a file, is for the hardware to say at  *)
(* each try.                                                               *)
(***************************************************************************)
loaderVars ==
    << _segment, _segmentVMA, _symtab, _symtab_sect, h_mem0, _segment2, rerunVars,
       h_patched, mem2, loadVars, hdrVars, mem, pc, relsVars, bufVars, loopVars,
       entryVars, callVars, relocRet, relsRet, warnings >>

\* what trySave may return
SaveResults == {VMSAVE_OK, VMSAVE_NOVM, VMSAVE_NOSPACE, VMSAVE_WRITEERROR}

\* a try on unit vm, with result r, enters the history of the call
Tried(vm, r, hit) ==
    /\ h_tried' = Append(h_tried, vm)
    /\ h_seen' = h_seen \cup {r}
    /\ h_hit' = hit

\* writeSaveGame is called: res = VMSAVE_NOVM
CallWriteSaveGame ==
    /\ cardPc = "idle"
    /\ cardOp' = "write"
    /\ res' = VMSAVE_NOVM
    /\ unit' = 0
    /\ cardRet' = -1
    /\ cardPc' = IF lastvm >= 0 THEN "cached" ELSE "scan"
    /\ h_lastvm0' = lastvm
    /\ h_tried' = << >>
    /\ h_seen' = {}
    /\ h_hit' = FALSE
    /\ UNCHANGED << lastvm, loaderVars, streamVars >>

\* lastvm >= 0 && (res = trySave(..., lastvm)) == VMSAVE_OK: return res
WriteCached ==
    /\ cardPc = "cached"
    /\ cardOp = "write"
    /\ \E r \in SaveResults :
          /\ res' = r
          /\ Tried(lastvm, r, r = VMSAVE_OK)
          /\ IF r = VMSAVE_OK
             THEN cardRet' = r /\ cardPc' = "idle"
             ELSE cardRet' = cardRet /\ cardPc' = "scan"
    /\ UNCHANGED << lastvm, cardOp, unit, h_lastvm0, loaderVars, streamVars >>

\* variant of WriteScan: res is the result of the last try
WriteScanLastResult ==
    /\ cardPc = "scan"
    /\ cardOp = "write"
    /\ unit < NumUnits
    /\ \E r \in SaveResults :
          /\ Tried(unit, r, r = VMSAVE_OK)
          /\ IF r = VMSAVE_OK
             THEN /\ lastvm' = unit
                  /\ cardRet' = r
                  /\ cardPc' = "idle"
                  /\ UNCHANGED << res, unit >>
             ELSE /\ res' = r
                  /\ unit' = unit + 1
                  /\ UNCHANGED << lastvm, cardRet, cardPc >>
    /\ UNCHANGED << cardOp, h_lastvm0, loaderVars, streamVars >>

\* one turn of the loop of writeSaveGame: trySave on unit i
WriteScan ==
    /\ cardPc = "scan"
    /\ cardOp = "write"
    /\ unit < NumUnits
    /\ \E r \in SaveResults :
          /\ Tried(unit, r, r = VMSAVE_OK)
          /\ IF r = VMSAVE_OK
             THEN /\ lastvm' = unit
                  /\ cardRet' = r
                  /\ cardPc' = "idle"
                  /\ UNCHANGED << res, unit >>
             ELSE /\ res' = IF r > res THEN r ELSE res
                  /\ unit' = unit + 1
                  /\ UNCHANGED << lastvm, cardRet, cardPc >>
    /\ UNCHANGED << cardOp, h_lastvm0, loaderVars, streamVars >>

\* the loop of writeSaveGame is over: return res
WriteReturn ==
    /\ cardPc = "scan"
    /\ cardOp = "write"
    /\ ~(unit < NumUnits)
    /\ cardRet' = res
    /\ cardPc' = "idle"
    /\ UNCHANGED << lastvm, cardOp, unit, res, h_lastvm0, h_tried, h_seen, h_hit,
                    loaderVars, streamVars >>

\* readSaveGame or deleteSaveGame is called
CallLookup(op) ==
    /\ cardPc = "idle"
    /\ cardOp' = op
    /\ unit' = 0
    /\ cardRet' = -1
    /\ cardPc' = IF lastvm >= 0 THEN "cached" ELSE "scan"
    /\ h_lastvm0' = lastvm
    /\ h_tried' = << >>
    /\ h_seen' = {}
    /\ h_hit' = FALSE
    /\ UNCHANGED << lastvm, res, loaderVars, streamVars >>

\* lastvm >= 0 && tryLoad(..., lastvm), or tryDelete(..., lastvm): return true
LookupCached ==
    /\ cardPc = "cached"
    /\ cardOp \in {"read", "delete"}
    /\ \E ok \in BOOLEAN :
          /\ Tried(lastvm, IF ok THEN 1 ELSE 0, ok)
          /\ IF ok
             THEN cardRet' = 1 /\ cardPc' = "idle"
             ELSE cardRet' = cardRet /\ cardPc' = "scan"
    /\ UNCHANGED << lastvm, cardOp, unit, res, h_lastvm0, loaderVars, streamVars >>

\* one turn of the loop of readSaveGame or deleteSaveGame on unit i
LookupScan ==
    /\ cardPc = "scan"
    /\ cardOp \in {"read", "delete"}
    /\ unit < NumUnits
    /\ \E ok \in BOOLEAN :
          /\ Tried(unit, IF ok THEN 1 ELSE 0, ok)
          /\ IF ok
             THEN /\ lastvm' = unit
                  /\ cardRet' = 1
                  /\ cardPc' = "idle"
                  /\ unit' = unit
             ELSE /\ unit' = unit + 1
                  /\ UNCHANGED << lastvm, cardRet, cardPc >>
    /\ UNCHANGED << cardOp, res, h_lastvm0, loaderVars, streamVars >>

\* the loop of readSaveGame or deleteSaveGame is over: return false
LookupReturnFalse ==
    /\ cardPc = "scan"
    /\ cardOp \in {"read", "delete"}
    /\ ~(unit < NumUnits)
    /\ cardRet' = 0
    /\ cardPc' = "idle"
    /\ UNCHANGED << lastvm, cardOp, unit, res, h_lastvm0, h_tried, h_seen, h_hit,
                    loaderVars, streamVars >>

NextCard ==
    \/ CallWriteSaveGame
    \/ WriteCached
    \/ WriteScan
    \/ WriteReturn
    \/ \E op \in {"read", "delete"} : CallLookup(op)
    \/ LookupCached
    \/ LookupScan
    \/ LookupReturnFalse

SpecCard == Init /\ [][NextCard]_vars

(***************************************************************************)
(* InVMSave (vmsave.cpp): a savegame read from a memory card into a        *)
(* buffer, with a position and an end-of-stream flag.  The counts are      *)
(* uint32 and the position is an int, as in the source.                    *)
(***************************************************************************)
\* greatest size of a savegame file
MaxFileSize == 2
\* greatest number of calls on one stream
MaxCalls == 3

\* uint32 -> int, as in "int nbyt = cnt"
Int32(w) ==
    IF w.hi >= Half \div 2 THEN (w.hi - Half) * Half + w.lo ELSE w.hi * Half + w.lo

\* int -> uint32, as in "cnt = (_size - _pos)"
UInt32(n) == Word((n \div Half) % Half, n % Half)

\* the counts a caller passes: the small ones, and 2^32 - 1
Counts == { UInt32(n) : n \in 0 .. MaxFileSize + 1 } \cup { Word(Half - 1, Half - 1) }

\* the int64 offsets a caller passes to seek: the value is q * 2^32 + r
SeekOffsets == [q : {0, 1}, r : -1 .. MaxFileSize + 1]

\* (int)(base + offs): the low 32 bits of the sum
Narrow(base, offs) == Int32(UInt32(base + offs.r))

\* the call enters the history of the stream
InCalled(op, arg, ret) ==
    /\ h_inOp' = op
    /\ h_inArg' = arg
    /\ h_inPos0' = in_pos
    /\ h_inEos0' = in_eos
    /\ h_inRet' = ret
    /\ h_inCalls' = h_inCalls + 1

\* new InVMSave() and readSaveGame(filename): tryLoad on the cached unit,
\* then on the units 0..23; a stream that could not be loaded is deleted
InOpen ==
    /\ in_state = "none"
    /\ h_inOp = "none"
    /\ \/ \E v \in (IF lastvm >= 0 THEN {lastvm} ELSE {}) \cup (0 .. NumUnits - 1),
             sz \in 0 .. MaxFileSize :
             /\ lastvm' = v
             /\ in_state' = "loaded"
             /\ in_size' = sz
             /\ in_pos' = 0
             /\ in_eos' = FALSE
       \/ UNCHANGED << lastvm, in_state, in_size, in_pos, in_eos >>
    /\ h_inOp' = "open"
    /\ UNCHANGED << h_inArg, h_inPos0, h_inEos0, h_inRet, h_inCalls >>
    /\ UNCHANGED << loaderVars, cardLocals, outVars >>

\* InVMSave::read(buf, cnt).  A memcpy whose range leaves the buffer has no
\* defined outcome: the program is killed, or it goes on.
InRead(c) ==
    /\ in_state = "loaded"
    /\ h_inCalls < MaxCalls
    /\ LET over == in_pos + Int32(c) > in_size
           cnt1 == IF over THEN UInt32(in_size - in_pos) ELSE c
           nbyt == Int32(cnt1)
           wild == nbyt # 0 /\ (nbyt < 0 \/ in_pos < 0 \/ in_pos + nbyt > in_size)
       IN  /\ InCalled("read", c, cnt1)
           /\ \/ /\ in_state' = "loaded"
                 /\ in_eos' = (over \/ in_eos)
                 /\ in_pos' = in_pos + nbyt
              \/ /\ wild
                 /\ in_state' = "crashed"
                 /\ UNCHANGED << in_eos, in_pos >>
    /\ UNCHANGED << in_size, lastvm, loaderVars, cardLocals, outVars >>

\* InVMSave::skip(offset)
InSkip(c) ==
    /\ in_state = "loaded"
    /\ h_inCalls < MaxCalls
    /\ LET over == in_pos + Int32(c) > in_size
           nbyt == IF over THEN in_size - in_pos ELSE Int32(c)
       IN  /\ InCalled("skip", c, NoWord)
           /\ in_pos' = in_pos + nbyt
    /\ UNCHANGED << in_state, in_size, in_eos, lastvm, loaderVars, cardLocals, outVars >>

\* InVMSave::seek(offs, whence)
InSeek(offs, whence) ==
    /\ in_state = "loaded"
    /\ h_inCalls < MaxCalls
    /\ LET p == CASE whence = "SEEK_SET" -> Narrow(0, offs)
                  [] whence = "SEEK_CUR" -> Narrow(in_pos, offs)
                  [] whence = "SEEK_END" -> Narrow(in_size, offs)
       IN  in_pos' = IF p < 0 THEN 0 ELSE IF p > in_size THEN in_size ELSE p
    /\ in_eos' = FALSE
    /\ InCalled("seek", [offs |-> offs, whence |-> whence], NoWord)
    /\ UNCHANGED << in_state, in_size, lastvm, loaderVars, cardLocals, outVars >>

\* InVMSave::clearErr()
InClearErr ==
    /\ in_state = "loaded"
    /\ h_inCalls < MaxCalls
    /\ in_eos' = FALSE
    /\ InCalled("clearErr", NoWord, NoWord)
    /\ UNCHANGED << in_state, in_pos, in_size, lastvm, loaderVars, cardLocals, outVars >>

NextIn ==
    \/ InOpen
    \/ \E c \in Counts : InRead(c)
    \/ \E c \in Counts : InSkip(c)
    \/ \E offs \in SeekOffsets, whence \in {"SEEK_SET", "SEEK_CUR", "SEEK_END"} :
          InSeek(offs, whence)
    \/ InClearErr

SpecIn == Init /\ [][NextIn]_vars

(***************************************************************************)
(* OutVMSave (vmsave.cpp): a savegame collected in a buffer of             *)
(* MAX_SAVE_SIZE bytes and written to a memory card by finalize.           *)
(***************************************************************************)
MAX_SAVE_SIZE == 128 * 1024

\* the counts a caller passes to write: 0, 1, the whole buffer, and 2^32 - 1
WriteCounts ==
    { UInt32(0), UInt32(1), UInt32(MAX_SAVE_SIZE), Word(Half - 1, Half - 1) }

\* writeSaveGame returns r and leaves v in lastvm: VMSAVE_OK from the cached
\* unit or from a unit of the scan, or a failure with lastvm as it was
WriteSaveGameOutcome(r, v) ==
    \/ r = VMSAVE_OK /\ v \in (IF lastvm >= 0 THEN {lastvm} ELSE {}) \cup (0 .. NumUnits - 1)
    \/ r \in SaveResults \ {VMSAVE_OK} /\ v = lastvm

\* the call enters the history of the stream
OutCalled(op, arg, ret) ==
    /\ h_outOp' = op
    /\ h_outArg' = arg
    /\ h_outPos0' = out_pos
    /\ h_outRet' = ret
    /\ h_outCalls' = h_outCalls + 1

\* new OutVMSave(filename)
OutOpen ==
    /\ out_state = "none"
    /\ out_state' = "open"
    /\ out_pos' = 0
    /\ committed' = -1
    /\ iofailed' = FALSE
    /\ h_outOp' = "open"
    /\ UNCHANGED << h_outArg, h_outPos0, h_outRet, h_commits, h_due, h_outCalls >>
    /\ UNCHANGED << lastvm, loaderVars, cardLocals, inVars >>

\* OutVMSave::write(buf, cnt).  A memcpy whose range leaves the buffer has
\* no defined outcome: the program is killed, or it goes on.
OutWrite(c) ==
    /\ out_state = "open"
    /\ h_outCalls < MaxCalls
    /\ LET over == out_pos + Int32(c) > MAX_SAVE_SIZE
           cnt1 == IF over THEN UInt32(MAX_SAVE_SIZE - out_pos) ELSE c
           nbyt == Int32(cnt1)
           wild == nbyt # 0 /\ (nbyt < 0 \/ out_pos < 0 \/ out_pos + nbyt > MAX_SAVE_SIZE)
       IN  /\ OutCalled("write", c, cnt1)
           /\ h_due' = (h_due \/ cnt1 # NoWord)
           /\ \/ /\ out_state' = "open"
                 /\ out_pos' = out_pos + nbyt
              \/ /\ wild
                 /\ out_state' = "crashed"
                 /\ out_pos' = out_pos
    /\ UNCHANGED << committed, iofailed, h_commits, lastvm, loaderVars, cardLocals, inVars >>

\* the body of OutVMSave::finalize()
Finalize(op) ==
    /\ h_due' = FALSE
    /\ IF committed >= out_pos
       THEN /\ OutCalled(op, NoWord, -1)
            /\ UNCHANGED << committed, iofailed, h_commits, lastvm >>
       ELSE \E r \in SaveResults, v \in -1 .. NumUnits - 1 :
               /\ WriteSaveGameOutcome(r, v)
               /\ lastvm' = v
               /\ h_commits' = Append(h_commits, out_pos)
               /\ committed' = out_pos
               /\ iofailed' = (iofailed \/ r # VMSAVE_OK)
               /\ OutCalled(op, NoWord, r)

\* OutVMSave::finalize()
OutFinalize ==
    /\ out_state = "open"
    /\ h_outCalls < MaxCalls
    /\ Finalize("finalize")
    /\ UNCHANGED << out_state, out_pos, loaderVars, cardLocals, inVars >>

\* OutVMSave::clearErr()
OutClearErr ==
    /\ out_state = "open"
    /\ h_outCalls < MaxCalls
    /\ iofailed' = FALSE
    /\ OutCalled("clearErr", NoWord, -1)
    /\ UNCHANGED << out_state, out_pos, committed, h_commits, h_due, lastvm,
                    loaderVars, cardLocals, inVars >>

\* OutVMSave::~OutVMSave()
OutDestroy ==
    /\ out_state = "open"
    /\ Finalize("destroy")
    /\ out_state' = "destroyed"
    /\ UNCHANGED << out_pos, loaderVars, cardLocals, inVars >>

NextOut ==
    \/ OutOpen
    \/ \E c \in WriteCounts : OutWrite(c)
    \/ OutFinalize
    \/ OutClearErr
    \/ OutDestroy

SpecOut == Init /\ [][NextOut]_vars

(***************************************************************************)
(* Vocabulary of the properties.                                           *)
(***************************************************************************)
\* curRel holds an entry fetched by the running relocate call
Fetched == curRel # NoRel

CurType == REL_TYPE(curRel.r_info)
CurSym == REL_INDEX(curRel.r_info)

\* relSegment + (r_offset - _segmentVMA) of the fetched entry, as an index in mem
CurTarget == SegLo + ToInt(Sub32(curRel.r_offset, _segmentVMA))

\* (v - o + b) mod 2^32, computed on the halves with integer arithmetic
ShiftedWord(v, o, b) ==
    LET l == v.lo - o.lo + b.lo
    IN  [hi |-> (v.hi - o.hi + b.hi + (l \div Half)) % Half, lo |-> l % Half]

\* the bytes of the segment agree in m1 and m2
SameSegment(m1, m2) == \A k \in SegIdx : m1[k] = m2[k]

\* m1 and m2 agree outside the four bytes at t
SameExceptWord(m1, m2, t) ==
    \A k \in MemIdx : (k < t \/ k >= t + WordBytes) => m1[k] = m2[k]

\* the fetched entry is an absolute fixup whose symbol was read as internal
AbsOnInternal ==
    Fetched /\ CurType \in {R_ARM_ABS32, R_ARM_TARGET1} /\ st_shndx >= 0 /\ st_shndx < SHN_LOPROC

\* the fetched entry has been processed and the loop has moved on
Processed == pc = "reloc_loop" /\ ri = h_examined /\ relocRet = "none"

\* any step that examines an entry
EntryStep ==
    RelocAbsPatch \/ RelocAbsSkip \/ RelocFault \/ RelocNoPatch \/ RelocUnknown

(***************************************************************************)
(* Properties.                                                             *)
(***************************************************************************)
\* C1: after relocate has processed an entry of type R_ARM_ABS32 or
\* R_ARM_TARGET1 whose symbol has st_shndx < SHN_LOPROC, the word at the target
\* is (V - O + B) mod 2^32, V being the word there before the entry.
C1_AbsFixupValue ==
    (AbsOnInternal /\ Processed) =>
        WordAt(mem, CurTarget) = ShiftedWord(WordAt(h_memPrev, CurTarget), _segmentVMA, _segment)

\* C1 witness: a word inside the segment has been shifted to a new value
C1_Witness ==
    /\ AbsOnInternal /\ Processed
    /\ InSegment(CurTarget)
    /\ WordAt(mem, CurTarget) # WordAt(h_memPrev, CurTarget)

\* C2: a table of which every entry is R_ARM_PC24, R_ARM_THM_CALL, R_ARM_CALL,
\* R_ARM_JUMP24 or R_ARM_V4BX: once allocation and read have succeeded,
\* relocate returns true, and the segment is as it was before the call.
C2_NoPatchTable ==
    (h_kinds \subseteq {"nopatch"}) =>
        /\ SameSegment(mem, h_memAtCall)
        /\ pc # "fault"
        /\ (relocRet # "none" /\ h_io = "ok") => (relocRet = "true" /\ h_examined = cnt)

\* C2 witness: relocate has returned true on two or more such entries
C2_Witness ==
    relocRet = "true" /\ h_kinds = {"nopatch"} /\ h_examined >= 2

\* C3: an entry whose type is none of the seven supported makes relocate
\* return false at that entry; no later entry is examined, and relocateRels
\* returns false.
C3_UnknownTypeFails ==
    (Fetched /\ KindOf(CurType) = "other") =>
        /\ pc = "done"
        /\ relocRet = "false"
        /\ relsRet = "false"
        /\ h_examined = ri + 1
        /\ ~ENABLED EntryStep

\* C3 witness: the unknown type was met after another entry
C3_Witness ==
    Fetched /\ KindOf(CurType) = "other" /\ pc = "done" /\ ri >= 1

\* C4: every word relocate reads or writes lies inside the segment.
C4_AccessInsideSegment ==
    h_deref => InSegment(CurTarget)

\* C5: a section of type SHT_RELA that names the symbol table and a loaded
\* section makes relocateRels return false with a diagnostic, whatever its
\* sh_entsize.
C5_RelaRejected ==
    ( /\ curShdr.sh_type = SHT_RELA
      /\ curShdr.sh_link = _symtab_sect
      /\ curShdr.sh_info < e_shnum
      /\ HasFlag(shFlags[curShdr.sh_info + 1], SHF_ALLOC) ) =>
        /\ pc = "done"
        /\ relsRet = "false"
        /\ warnings = << "RELA entries not supported yet!" >>

\* C6: a seek that fails or a read that delivers fewer bytes than the declared
\* size makes relocate return false with the segment unchanged; nothing is
\* patched before the table has been read.
C6_ReadFailure ==
    /\ (h_io \in {"seek_failed", "short_read"}) =>
          /\ pc = "done"
          /\ relocRet = "false"
          /\ SameSegment(mem, h_memAtCall)
    /\ (h_io # "ok") => (h_examined = 0 /\ mem = h_memAtCall)

\* C6 witness: a short read in a load that had already patched the segment
C6_Witness ==
    h_io = "short_read" /\ pc = "done" /\ mem # h_mem0

\* C7: on every exit of relocate the scratch buffer has been freed exactly
\* once if it was allocated: allocations and frees balance.
C7_BufferFreed ==
    /\ frees <= allocs
    /\ allocs <= frees + 1
    /\ (relocRet # "none" \/ pc = "done") => (allocs = frees /\ rel # "alloc")
    /\ (rel = "alloc") <=> (allocs = frees + 1)

\* C7 witness: a load that failed on an unknown type after allocating
C7_Witness ==
    pc = "done" /\ Fetched /\ KindOf(CurType) = "other" /\ allocs >= 1 /\ rel = "freed"

\* C8: an absolute fixup patches only when st_shndx < SHN_LOPROC; otherwise
\* the word is unchanged, the entry is processed and the loop goes on.
C8_ExternalSymbolSkipped ==
    (Fetched /\ CurType \in {R_ARM_ABS32, R_ARM_TARGET1}) =>
        /\ (st_shndx >= 0 /\ CurSym < Len(_symtab)) => st_shndx = _symtab[CurSym + 1]
        /\ (st_shndx >= SHN_LOPROC) => (mem = h_memPrev /\ Processed /\ ENABLED Next)
        /\ (mem # h_memPrev) => (st_shndx >= 0 /\ st_shndx < SHN_LOPROC)

\* C8 witness: a fixup on the symbol whose st_shndx is SHN_LOPROC itself
C8_Witness ==
    /\ Fetched /\ CurType \in {R_ARM_ABS32, R_ARM_TARGET1}
    /\ st_shndx = SHN_LOPROC
    /\ InSegment(CurTarget)
    /\ _segment # _segmentVMA

\* C9: an entry changes at most the four bytes at its target; after a
\* successful relocateRels that shifted one word once, that word is
\* V - O + B and all other bytes are those copied by the segment loader.
C9_OnlyTargetChanges ==
    /\ Fetched => SameExceptWord(mem, h_memPrev, CurTarget)
    /\ (relsRet = "true" /\ DOMAIN h_patched # {}
          /\ \A t \in DOMAIN h_patched : DOMAIN h_patched = {t} /\ h_patched[t] = 1) =>
          \A t \in DOMAIN h_patched :
             /\ WordAt(mem, t) = ShiftedWord(WordAt(h_mem0, t), _segmentVMA, _segment)
             /\ SameExceptWord(mem, h_mem0, t)

\* C9 witness: a successful load of one absolute fixup and other entries
C9_Witness ==
    /\ relsRet = "true"
    /\ \E t \in DOMAIN h_patched : DOMAIN h_patched = {t} /\ h_patched[t] = 1 /\ InSegment(t)
    /\ h_kinds = {"abs", "nopatch"}
    /\ mem # h_mem0

\* C10: relocate returns true exactly when the allocation succeeded, the
\* table was read in full and every entry has one of the seven types.
C10_ReturnValue ==
    (relocRet # "none") =>
        (relocRet = "true" <=> (rel # "null" /\ h_io = "ok" /\ "other" \notin h_kinds))

\* C10 witness: relocate has returned true on fixups and self-relative entries
C10_Witness ==
    relocRet = "true" /\ h_kinds = {"abs", "nopatch"} /\ h_examined = cnt /\ cnt >= 2

\* the four conditions of C11 on a section header, besides its type
MeetsLastFour(h) ==
    /\ h.sh_entsize = 8
    /\ h.sh_link = _symtab_sect
    /\ h.sh_info < e_shnum
    /\ shFlags[h.sh_info + 1] \in {2, 3, 6, 7}

\* relocateRels examines the header of section si in this step
Examines == pc = "rels_loop" /\ si < e_shnum

\* C11: relocateRels applies a section only if it is SHT_REL, its sh_entsize
\* is sizeof(Elf32_Rel), its sh_link is the symbol table section, its sh_info
\* is below e_shnum and names a section with SHF_ALLOC; a section failing one
\* of the last four is skipped without a patch and without a failure.
C11_QualifyingSections ==
    [][ /\ (pc' \in {"reloc_malloc", "reloc_read", "reloc_loop"} \/ mem' # mem) =>
              (curShdr'.sh_type = SHT_REL /\ MeetsLastFour(curShdr'))
        /\ (Examines /\ ~MeetsLastFour(curShdr')) =>
              /\ pc' = "rels_loop"
              /\ si' = si + 1
              /\ mem' = mem
              /\ warnings' = warnings
              /\ relsRet' = relsRet
              /\ allocs' = allocs ]_vars

\* C11 witness: after a section was applied, a SHT_REL section is skipped only
\* because the section its sh_info names is not loaded
C11_Witness ==
    /\ pc = "rels_loop"
    /\ mem # h_mem0
    /\ relocRet = "true"
    /\ curShdr.sh_type = SHT_REL
    /\ curShdr.sh_entsize = SizeofRel
    /\ curShdr.sh_link = _symtab_sect
    /\ curShdr.sh_info < e_shnum
    /\ ~HasFlag(shFlags[curShdr.sh_info + 1], SHF_ALLOC)

\* n * w mod 2^32
RECURSIVE Scaled(_, _)
Scaled(n, w) == IF n = 0 THEN NoWord ELSE ShiftedWord(Scaled(n - 1, w), NoWord, w)

\* B2 - B1: the difference of the runtime bases of the two copies
BaseDelta == ShiftedWord(_segment2, _segment, NoWord)

\* the byte at k belongs to none of the words shifted so far
Unpatched(k) == \A t \in DOMAIN h_patched : k < t \/ k >= t + WordBytes

\* C12 as stated: after relocating two fresh copies of an object at the bases
\* B1 and B2, every word patched by an absolute fixup on an internal symbol
\* differs by (B2 - B1) mod 2^32 and every other byte is identical.
C12_RebasedByDelta ==
    (relsRet = "true") =>
        /\ \A t \in DOMAIN h_patched :
              InSegment(t) =>
                  WordAt(mem2, t) = ShiftedWord(WordAt(mem, t), NoWord, BaseDelta)
        /\ \A k \in SegIdx : Unpatched(k) => mem2[k] = mem[k]

\* C12 amended: a word to which n absolute fixups on internal symbols were
\* applied differs by n * (B2 - B1) mod 2^32 between the two copies, hence by
\* B2 - B1 when it is the target of one such entry; every other byte is
\* of the segments is identical.
C12_RebasedPerFixup ==
    /\ \A t \in DOMAIN h_patched :
          InSegment(t) =>
              WordAt(mem2, t) = ShiftedWord(WordAt(mem, t), NoWord,
                                            Scaled(h_patched[t], BaseDelta))
    /\ \A k \in SegIdx : Unpatched(k) => mem2[k] = mem[k]

\* C12 witness: a successful load in which two entries designate the same
\* word of the segment, at two different bases
C12_Witness ==
    /\ relsRet = "true"
    /\ _segment2 # _segment
    /\ \E t \in DOMAIN h_patched : h_patched[t] = 2 /\ InSegment(t)
    /\ mem2 # mem

\* malloc has returned null in this step: relocate leaves its first
\* statement without a buffer
AllocationFails == pc = "reloc_malloc" /\ allocs' = allocs

\* C13: when the allocation of the scratch buffer fails, relocate returns
\* false, with a warning, in that very step: the file is neither sought nor
\* read, the segment is not touched, no second allocation is tried and the
\* process goes on to the return of relocateRels; the table is never read
\* nor walked without a buffer, and relocate does not run again after the
\* return.
C13_AllocationFailure ==
    [][ /\ AllocationFails =>
              /\ relocRet' = "false"
              /\ pc' = "done"
              /\ h_io' = "none"
              /\ h_examined' = 0
              /\ mem' = mem /\ mem' = h_memAtCall
              /\ rel' = "null"
              /\ frees' = frees
              /\ Len(warnings') = Len(warnings) + 1
        /\ pc' \in {"reloc_read", "reloc_loop"} => rel' = "alloc"
        /\ pc = "done" => UNCHANGED << mem, bufVars, h_io, warnings, relocRet, relsRet >> ]_vars

\* C13 witness: the allocation for a second section has failed after the
\* first section was applied
C13_Witness ==
    /\ pc = "done"
    /\ relocRet = "false"
    /\ rel = "null"
    /\ h_io = "none"
    /\ allocs = 1 /\ frees = 1
    /\ mem # h_mem0

\* C14: when relocateRels has returned false, whatever the cause, every
\* scratch buffer has been freed and the next step of the load releases the
\* segment without creating a Plugin; a usable Plugin exists only over a live
\* segment whose relocation returned true.
C14_TransactionalLoad ==
    [][ /\ relsRet' = "false" => (allocs' = frees' /\ plugin' = "none")
        /\ (pc = "done" /\ relsRet = "false") => (~segLive' /\ plugin' = "none")
        /\ ~segLive => (~segLive' /\ plugin' = "none")
        /\ plugin' = "usable" => (relsRet' = "true" /\ segLive') ]_vars

\* C14 witness: a load unwound after an unknown type, found when a first
\* entry had already been patched
C14_Witness ==
    /\ relsRet = "false"
    /\ ~segLive
    /\ plugin = "none"
    /\ "other" \in h_kinds
    /\ mem # h_mem0
    /\ allocs = frees

\* the number of scratch buffers allocated and not yet freed
LiveBuffers == allocs - frees

\* C15: at most one scratch buffer is live at any point of relocateRels, and
\* none is live while relocateRels examines a section or enters relocate for
\* it: the buffer of the previous section has been freed by then.
C15_OneBufferAtATime ==
    /\ LiveBuffers \in {0, 1}
    /\ pc \in {"rels_loop", "reloc_malloc"} => LiveBuffers = 0
    /\ pc \in {"reloc_read", "reloc_loop"} => (LiveBuffers = 1 /\ rel = "alloc")

\* C15 witness: the buffer of a second qualifying section is live, the one of
\* the first having been freed
C15_Witness ==
    /\ pc = "reloc_read"
    /\ allocs = 2
    /\ frees = 1
    /\ si = 1

\* the cause of a false return, read off the state it left behind
FailureCause ==
    IF relocRet # "false" THEN "RELA entries not supported yet!"
    ELSE IF rel = "null" THEN "Could not allocate bytes for the relocation table"
    ELSE IF h_io \in {"seek_failed", "short_read"} THEN "Relocation table load failed."
    ELSE "Unknown relocation type"

\* C16: a call of relocateRels that has returned false has emitted exactly
\* one warning, the one of its cause; a call that has returned true, or has
\* not returned yet, has emitted none.
C16_OneWarningPerFailure ==
    /\ relsRet = "false" => warnings = << FailureCause >>
    /\ relsRet # "false" => warnings = << >>
    /\ relsRet = "false" =>
          \/ relocRet # "false" /\ curShdr.sh_type = SHT_RELA
          \/ relocRet = "false" /\ rel = "null" /\ h_io = "none"
          \/ relocRet = "false" /\ rel = "freed" /\ h_io \in {"seek_failed", "short_read"}
          \/ relocRet = "false" /\ rel = "freed" /\ h_io = "ok" /\ "other" \in h_kinds

\* C16 witness: a false return on a short read of the table of a second
\* section, one warning emitted, the first section having run silently
C16_Witness ==
    /\ relsRet = "false"
    /\ h_io = "short_read"
    /\ allocs = 2
    /\ Len(warnings) = 1

\* the header passes the test of relocateRels, by the terms of the claim
QualifyingHeader(h) == h.sh_type \in {SHT_REL, SHT_RELA} /\ MeetsLastFour(h)

\* C17: the section index only ever grows by one; a header is read only when
\* section si is examined, and the examination skips a section that does not
\* qualify, returns false on a qualifying SHT_RELA section and enters
\* relocate, once, on a qualifying SHT_REL section; a false return of
\* relocate is returned at once, a true return moves to the next section;
\* true is returned only when every section has been examined, false only
\* on a qualifying SHT_RELA section or a false return of relocate; after the
\* return nothing is examined or applied.
C17_SectionOrder ==
    [][ /\ si' \in {si, si + 1}
        /\ curShdr' # curShdr => Examines
        /\ Examines =>
              IF ~QualifyingHeader(curShdr')
              THEN pc' = "rels_loop" /\ si' = si + 1 /\ relsRet' = relsRet
              ELSE IF curShdr'.sh_type = SHT_RELA
              THEN relsRet' = "false" /\ pc' = "done" /\ si' = si /\ allocs' = allocs
              ELSE pc' = "reloc_malloc" /\ si' = si /\ relocRet' = "none"
        /\ (pc # "reloc_malloc" /\ pc' = "reloc_malloc") => Examines
        /\ (relocRet # "false" /\ relocRet' = "false") =>
              (relsRet' = "false" /\ pc' = "done" /\ si' = si)
        /\ (relocRet # "true" /\ relocRet' = "true") =>
              (pc' = "rels_loop" /\ si' = si + 1 /\ relsRet' = relsRet)
        /\ (pc = "rels_loop" /\ ~(si < e_shnum)) => relsRet' = "true"
        /\ (relsRet # "true" /\ relsRet' = "true") =>
              (pc = "rels_loop" /\ si = e_shnum /\ relocRet # "false")
        /\ (relsRet # "false" /\ relsRet' = "false") =>
              \/ relocRet' = "false"
              \/ QualifyingHeader(curShdr') /\ curShdr'.sh_type = SHT_RELA
        /\ relsRet # "none" =>
              UNCHANGED << si, curShdr, mem, relocRet, relsRet, allocs, warnings >> ]_vars

\* C17 witness: relocate has failed on the first of several sections and
\* relocateRels has returned false without examining the next one
C17_Witness ==
    /\ pc = "done"
    /\ relsRet = "false"
    /\ relocRet = "false"
    /\ si = 0
    /\ e_shnum = MaxSections
    /\ allocs = 1

\* B - O: the shift of the one loaded segment
BaseShift == ShiftedWord(NoWord, _segmentVMA, _segment)

\* C18: no step of relocate or relocateRels changes _segment, _segmentVMA,
\* the symbol table or, once the call has begun, the section headers; the
\* target of every examined entry is relSegment + (r_offset - _segmentVMA),
\* and a step that changes memory adds B - O to the word at that target and
\* changes nothing else, whatever section the header's sh_info names.
C18_SinglePairFrame ==
    [][ /\ UNCHANGED << _segment, _segmentVMA, _symtab, _symtab_sect >>
        /\ pc # "idle" => UNCHANGED << e_shnum, shFlags >>
        /\ h_examined' = h_examined + 1 => target' = CurTarget'
        /\ mem' # mem =>
              /\ h_examined' = h_examined + 1
              /\ SameExceptWord(mem, mem', CurTarget')
              /\ WordAt(mem', CurTarget') =
                    ShiftedWord(WordAt(mem, CurTarget'), NoWord, BaseShift) ]_vars

\* C18 witness: a word of the segment has been shifted by an entry of a
\* section whose sh_info names another section than the first
C18_Witness ==
    /\ AbsOnInternal /\ Processed
    /\ curShdr.sh_info # 0
    /\ _segment # _segmentVMA
    /\ InSegment(CurTarget)
    /\ WordAt(mem, CurTarget) = ShiftedWord(WordAt(h_memPrev, CurTarget), NoWord, BaseShift)
    /\ mem # h_memPrev

\* C19: after a false return of relocateRels the memory holds every fixup
\* applied before the failure and nothing else: a word shifted n times is its
\* loaded value plus n * (B - O), every other byte is as loaded; the entry of
\* unknown type at index k follows k processed entries and changes nothing,
\* and a call that failed before its first entry changes nothing.
C19_NoRollback ==
    (relsRet = "false") =>
        /\ \A t \in DOMAIN h_patched :
              WordAt(mem, t) = ShiftedWord(WordAt(h_mem0, t), NoWord,
                                           Scaled(h_patched[t], BaseShift))
        /\ \A k \in MemIdx : Unpatched(k) => mem[k] = h_mem0[k]
        /\ (relocRet = "false" /\ "other" \in h_kinds) =>
              (mem = h_memPrev /\ ri = h_examined - 1)
        /\ (relocRet = "false" /\ h_examined = 0) => mem = h_memAtCall

\* C19 witness: relocate has failed on an unknown type at index 1, the fixup
\* of entry 0 being in the segment
C19_Witness ==
    /\ pc = "done"
    /\ relsRet = "false"
    /\ "other" \in h_kinds
    /\ ri = 1
    /\ mem # h_memAtCall
    /\ mem = h_memPrev
    /\ \E t \in DOMAIN h_patched : InSegment(t) /\ WordAt(mem, t) # WordAt(h_mem0, t)

\* C20: for every fetched entry dispatched as an absolute fixup
\* (R_ARM_ABS32 or R_ARM_TARGET1), the symbol index unpacked from r_info is
\* less than the number of symbols, so that sym->st_shndx is read inside the
\* symbol table.
C20_SymbolIndexValid ==
    (Fetched /\ CurType \in {R_ARM_ABS32, R_ARM_TARGET1}) => CurSym < Len(_symtab)

\* the number of complete entries in a table of the given size
WholeEntries(size) == CHOOSE n \in 0 .. size : n * 8 <= size /\ size < (n + 1) * 8

\* how often the word at t has been shifted
TimesPatched(b, t) == IF t \in DOMAIN b THEN b[t] ELSE 0

\* C21: relocate walks the entries 0, 1, ... in this order, one per step,
\* and returns true after exactly floor(size / 8) of them, the trailing
\* bytes of the table having been read with the rest; each absolute fixup
\* on an internal symbol shifts the word at its target once more, also when
\* an earlier entry designated the same word.
C21_EveryEntryOnce ==
    [][ /\ h_examined' = h_examined + 1 =>
              /\ pc = "reloc_loop"
              /\ ri = h_examined
              /\ ri < WholeEntries(curShdr.sh_size)
              /\ ri' = ri + 1 \/ pc' \in {"done", "fault"}
        /\ (pc = "reloc_loop" /\ h_examined' # h_examined + 1) =>
              /\ h_examined = WholeEntries(curShdr.sh_size)
              /\ relocRet' = "true"
              /\ h_io = "ok"
              /\ warnings' = warnings
        /\ (relocRet # "true" /\ relocRet' = "true") =>
              h_examined = WholeEntries(curShdr.sh_size)
        /\ (h_examined' = h_examined + 1 /\ AbsOnInternal' /\ pc' = "reloc_loop") =>
              /\ TimesPatched(h_patched', CurTarget') = TimesPatched(h_patched, CurTarget') + 1
              /\ WordAt(mem', CurTarget') =
                    ShiftedWord(WordAt(mem, CurTarget'), _segmentVMA, _segment)
        /\ h_patched' # h_patched => (h_examined' = h_examined + 1 /\ AbsOnInternal') ]_vars

\* C21 witness: a table of two entries and four trailing bytes has been
\* walked to its end, both entries having shifted the same word
C21_Witness ==
    /\ relocRet = "true"
    /\ curShdr.sh_size = 2 * SizeofRel + WordBytes
    /\ h_examined = 2
    /\ \E t \in DOMAIN h_patched :
          /\ h_patched[t] = 2
          /\ InSegment(t)
          /\ WordAt(mem, t) = ShiftedWord(ShiftedWord(WordAt(h_mem0, t), _segmentVMA, _segment),
                                          _segmentVMA, _segment)
          /\ WordAt(mem, t) # WordAt(h_mem0, t)

\* the second run of relocateRels has returned true
SecondRunDone == run = 2 /\ relsRet = "true"

\* C22 as stated: after a second run of relocateRels with the same tables
\* and the same base, every word patched by an absolute fixup on an internal
\* symbol was V - O + B after the first run and is V + 2 * (B - O) now; where
\* a word was patched, the two runs give the result of one only when B = O.
C22_TwiceShiftsTwice ==
    SecondRunDone =>
        /\ \A t \in DOMAIN h_patched1 :
              /\ WordAt(h_mem1, t) = ShiftedWord(WordAt(h_mem0, t), _segmentVMA, _segment)
              /\ WordAt(mem, t) =
                    ShiftedWord(WordAt(h_mem0, t), NoWord, Scaled(2, BaseShift))
        /\ (DOMAIN h_patched1 # {} /\ mem = h_mem1) => _segment = _segmentVMA

\* C22 amended: every run adds B - O to a word once per absolute fixup on an
\* internal symbol it applies there, reading the word as the run before left
\* it: a word shifted n times by the first run is V + n * (B - O) after it,
\* and V + 2n * (B - O) after a second run that applies the same fixups
\* (V - O + B and V + 2 * (B - O) when n = 1); every other byte is as loaded.
\* The two runs give the result of one when B = O, and otherwise only when
\* every shift of the second run is 0 mod 2^32.
C22_SecondRunShiftsAgain ==
    run = 2 =>
        /\ \A t \in DOMAIN h_patched1 :
              WordAt(h_mem1, t) = ShiftedWord(WordAt(h_mem0, t), NoWord,
                                              Scaled(h_patched1[t], BaseShift))
        /\ \A t \in DOMAIN h_patched :
              WordAt(mem, t) = ShiftedWord(WordAt(h_mem0, t), NoWord,
                                           Scaled(h_patched[t], BaseShift))
        /\ \A k \in MemIdx : Unpatched(k) => (mem[k] = h_mem0[k] /\ h_mem1[k] = h_mem0[k])
        /\ SecondRunDone =>
              /\ \A t \in DOMAIN h_patched1 :
                    h_patched[t] = 2 * h_patched1[t] =>
                        WordAt(mem, t) = ShiftedWord(WordAt(h_mem1, t), NoWord,
                                                     Scaled(h_patched1[t], BaseShift))
              /\ _segment = _segmentVMA => mem = h_mem1
              /\ mem = h_mem1 =>
                    \A t \in DOMAIN h_patched :
                        Scaled(h_patched[t] - TimesPatched(h_patched1, t), BaseShift) = NoWord

\* C22 witness: two runs have each applied the two fixups that designate
\* one word of the segment, at a base other than the original one
C22_Witness ==
    /\ SecondRunDone
    /\ _segment # _segmentVMA
    /\ \E t \in DOMAIN h_patched1 :
          /\ h_patched1[t] = 2
          /\ h_patched[t] = 4
          /\ InSegment(t)
          /\ WordAt(mem, t) # WordAt(h_mem1, t)

\* C23: a call of relocate on a qualifying section without a complete entry
\* whose table could be sought and read returns true, with no warning and
\* the segment as it was, also when the allocator returns null for the
\* zero-byte request of an empty section.
C23_EmptySectionSucceeds ==
    ( /\ relocRet # "none"
      /\ QualifyingHeader(curShdr) /\ curShdr.sh_type = SHT_REL
      /\ WholeEntries(curShdr.sh_size) = 0
      /\ h_io \notin {"seek_failed", "short_read"}
      /\ curShdr.sh_size = 0 \/ rel # "null" ) =>
        /\ relocRet = "true"
        /\ warnings = << >>
        /\ mem = h_memAtCall

\* the units writeSaveGame is to try when lastvm is v0: the cached unit if
\* there is one, then 0, 1, ... 23
ExpectedTries(v0) ==
    (IF v0 >= 0 THEN << v0 >> ELSE << >>) \o [k \in 1 .. 24 |-> k - 1]

IsPrefix(s, t) == Len(s) <= Len(t) /\ \A k \in 1 .. Len(s) : s[k] = t[k]

\* the most severe of a set of results
MostSevere(S) == CHOOSE r \in S : \A q \in S : q <= r

\* what holds of a call of writeSaveGame at every point, and at its return
WriteSaveGameContract ==
    cardOp = "write" =>
        /\ IsPrefix(h_tried, ExpectedTries(h_lastvm0))
        /\ VMSAVE_OK \in h_seen => (h_hit /\ cardPc = "idle" /\ cardRet = VMSAVE_OK)
        /\ (cardPc = "idle" /\ cardRet = VMSAVE_OK) =>
              /\ h_hit /\ h_tried # << >>
              /\ lastvm = IF h_lastvm0 >= 0 /\ Len(h_tried) = 1
                          THEN h_lastvm0 ELSE h_tried[Len(h_tried)]
        /\ (cardPc = "idle" /\ cardRet # VMSAVE_OK) =>
              /\ h_tried = ExpectedTries(h_lastvm0)
              /\ VMSAVE_OK \notin h_seen
              /\ cardRet = MostSevere(h_seen)
              /\ lastvm = h_lastvm0

\* C26: writeSaveGame tries the cached unit, then the units 0..23 in
\* ascending order, and stops at the first success, returning VMSAVE_OK;
\* when no try succeeds it returns the most severe result seen and leaves
\* lastvm as it was.  In the three save-game functions lastvm changes only
\* when a try of the scan succeeds, and then to the unit of that try, so it
\* is -1 or a unit in 0..23.
C26_WriteSaveGameScan ==
    [][ /\ WriteSaveGameContract'
        /\ lastvm' \in -1 .. 23
        /\ lastvm' # lastvm =>
              /\ cardPc = "scan" /\ cardPc' = "idle"
              /\ lastvm' = unit /\ unit \in 0 .. 23
              /\ h_hit' /\ h_tried' = Append(h_tried, unit)
        /\ (cardPc = "scan" /\ h_hit') => lastvm' = unit ]_vars

\* C26 witness: with a cached unit, writeSaveGame has tried all units in
\* vain, a write error having been followed by lesser failures
C26_Witness ==
    /\ cardOp = "write"
    /\ cardPc = "idle"
    /\ h_lastvm0 = 5
    /\ Len(h_tried) = 25
    /\ h_seen = {VMSAVE_NOVM, VMSAVE_NOSPACE, VMSAVE_WRITEERROR}
    /\ cardRet = VMSAVE_WRITEERROR
    /\ res = VMSAVE_WRITEERROR
    /\ lastvm = 5

\* the bytes between the position at the last call and the end
Remaining == in_size - h_inPos0

\* the uint32 c exceeds the number n >= 0
Exceeds(c, n) ==
    LET w == UInt32(n) IN c.hi > w.hi \/ (c.hi = w.hi /\ c.lo > w.lo)

\* min(cnt, _size - _pos) for the last read, as a uint32
ReadLength == IF Exceeds(h_inArg, Remaining) THEN UInt32(Remaining) ELSE h_inArg

\* C24: on a stream loaded successfully, after any calls of read, skip and
\* seek, 0 <= _pos <= _size; read(cnt) returns min(cnt, _size - _pos),
\* advances the position by that, and sets the end-of-stream flag exactly
\* when cnt exceeds the bytes remaining; seek leaves the position in
\* [0, _size] and clears the flag.
C24_PositionWithinSize ==
    in_state = "loaded" =>
        /\ 0 <= in_pos /\ in_pos <= in_size
        /\ h_inOp = "read" =>
              /\ h_inRet = ReadLength
              /\ UInt32(in_pos - h_inPos0) = ReadLength
              /\ Exceeds(h_inArg, Remaining) => in_eos
              /\ ~Exceeds(h_inArg, Remaining) => in_eos = h_inEos0
        /\ h_inOp = "seek" => ~in_eos

\* the room left in the buffer at the last call
Room == MAX_SAVE_SIZE - h_outPos0

\* min(cnt, room) for the last write, as a uint32
WriteLength == IF Exceeds(h_outArg, Room) THEN UInt32(Room) ELSE h_outArg

\* the step is a finalize, called directly or by the destructor
Finalizing == h_outCalls' # h_outCalls /\ h_outOp' \in {"finalize", "destroy"}

\* the step hands the buffer to writeSaveGame
Commits == h_commits' # h_commits

\* what C25 requires of a step on an OutVMSave stream
OutVMSaveContract ==
    /\ out_state' \in {"open", "destroyed"} =>
          /\ 0 <= out_pos' /\ out_pos' <= MAX_SAVE_SIZE
          /\ h_outOp' = "write" =>
                /\ h_outRet' = WriteLength'
                /\ UInt32(out_pos' - h_outPos0') = WriteLength'
    /\ Commits => Finalizing
    /\ Finalizing =>
          /\ Commits <=> h_due
          /\ Commits => /\ h_commits' = Append(h_commits, out_pos)
                        /\ \A k \in 1 .. Len(h_commits) : h_commits[k] # out_pos
                        /\ h_outRet' # VMSAVE_OK => iofailed'

\* C25: the buffer of an OutVMSave stream is handed to writeSaveGame at
\* most once per write position: the first finalize commits, even with no
\* byte written; a later finalize commits exactly when a write has stored
\* at least one byte since the previous one, so a failed commit is not
\* tried again; a failed commit sets the error flag; the destructor
\* finalizes; and 0 <= _pos <= MAX_SAVE_SIZE, write storing min(cnt, room)
\* bytes.
C25_CommitOncePerPosition == [][OutVMSaveContract]_vars

====
